---- MODULE Spec2Model ----
(***************************************************************************)
(* Live-metrics refresh pipeline of the GAIA dashboard: the text-metric    *)
(* extractor and fetchLiveMetrics (services/metricsService), the polling   *)
(* effects of App and MetricsHero, the polling panels (EnergyChart,        *)
(* SustainabilityScore, AWSSpotOptimization), the agent gateway clients    *)
(* (invokeClimateAgent, FloatingChat.callAgent), the chat views            *)
(* (FloatingChat, IntegratedChat) and the server-side response cache       *)
(* whose contract the pollers consume.                                     *)
(*                                                                         *)
(* Texts are sequences of one-character strings.  The two non-ASCII        *)
(* characters of the patterns are written "deg" (the degree sign) and      *)
(* "degC" (the one-character degree-Celsius sign), "sub2" is the subscript *)
(* two.  Numbers are exact decimals [m, e] standing for m / 10^e.          *)
(***************************************************************************)
EXTENDS Integers, Sequences, FiniteSets, TLC

VARIABLES
    status,       \* view -> "fresh" | "mounted" | "unmounted"
    interval,     \* view -> TRUE while the setInterval timer is armed
    inflight,     \* view -> set of outstanding fetches [seq, kind]
    nextSeq,      \* view -> number of fetches issued so far
    liveMetrics,  \* view -> the snapshot held in the view's useState cell
    isLoading,    \* MetricsHero's isLoading flag
    applied,      \* view -> the fetch whose result was applied last (seq 0: none)
    maxResolved,  \* view -> greatest seq among the resolved fetches (0: none)
    last,         \* the last step of the poller, for the step properties
    exText,       \* extractor run: the text
    exPat,        \* extractor run: the name of the pattern
    exResult,     \* extractor run: the value returned
    exPc,         \* extractor run: "ready" | "done"
    gwClient,     \* gateway run: which client was invoked
    gwPrompt,     \* gateway run: the prompt
    gwNet,        \* gateway run: what the network did
    gwResult,     \* gateway run: how the promise settled
    gwPc,         \* gateway run: "idle" | "done"
    cache,        \* response cache: set of entries [prompt, payload, timestamp]
    now,          \* server clock, in minutes
    calls,        \* number of reasoning calls made so far
    created,      \* prompt -> the entry last created for it ([ts |-> -1]: none yet)
    lastReply,    \* the last request served, as its caller and the cache saw it
    pending,      \* reasoning calls begun and not finished [prompt, n, time, prior, priorCached]
    pstatus,      \* panel -> "fresh" | "mounted" | "unmounted" ("absent": not rendered)
    pinterval,    \* panel -> TRUE while the panel's setInterval timer is armed
    pinflight,    \* panel -> set of the seq numbers of its outstanding fetches
    pnextSeq,     \* panel -> number of fetches issued so far
    energy,       \* EnergyChart's useState cells
    score,        \* SustainabilityScore's useState cells
    spot,         \* AWSSpotOptimization's useState cells
    spotOrigin,   \* metric field of AWSSpotOptimization -> seq of the fetch that set it (0: initial)
    plast,        \* the last step of a panel, for the step properties
    chatView,     \* the chat component that is exercised
    messages,     \* its messages state: sequence of [id, sender, text, ui, send, net]
    input,        \* its input state
    isTyping,     \* its isTyping state
    isOpen,       \* FloatingChat's isOpen state (TRUE throughout for IntegratedChat)
    unreadCount,  \* FloatingChat's unreadCount state
    outstanding,  \* handleSend calls waiting for callAgent: [n, query, isOpen]
    sent,         \* number of prompts sent so far
    clockMs       \* Date.now()

pollVars == <<status, interval, inflight, nextSeq, liveMetrics, isLoading,
              applied, maxResolved, last>>
exVars == <<exText, exPat, exResult, exPc>>
gwVars == <<gwClient, gwPrompt, gwNet, gwResult, gwPc>>
cacheVars == <<cache, now, calls, created, lastReply, pending>>
panelVars == <<pstatus, pinterval, pinflight, pnextSeq, energy, score, spot, spotOrigin, plast>>
chatVars == <<chatView, messages, input, isTyping, isOpen, unreadCount, outstanding, sent, clockMs>>
vars == <<pollVars, exVars, gwVars, cacheVars, panelVars, chatVars>>

(***************************************************************************)
(* Bounds of the model.                                                    *)
(***************************************************************************)
MaxFetches == 2   \* fetches one view issues (mount fetch and ticks)
MaxChunks == 3    \* chunks concatenated into a text of the extractor runs
MaxRequests == 4  \* requests the server receives
MaxTime == 6      \* minutes the server clock runs
MaxPending == 2   \* reasoning calls in progress at once
MaxPanelFetches == 3  \* fetches the three panels issue together
MaxSends == 2     \* prompts sent in one chat
MaxClock == 1     \* milliseconds the clock of the chat runs
CacheCapacity == 2  \* entries the cache holds (100 in the deployment), scaled down

(***************************************************************************)
(* Numbers.                                                                *)
(***************************************************************************)
NaN == [t |-> "NaN"]
Undefined == [t |-> "undefined"]

RECURSIVE Norm(_, _)
Norm(m, e) ==
    IF e > 0 /\ m % 10 = 0 THEN Norm(m \div 10, e - 1) ELSE [t |-> "number", m |-> m, e |-> e]

Num(n) == [t |-> "number", m |-> n, e |-> 0]

IsNumber(x) == x.t = "number" /\ x.m \in Nat /\ x.e \in Nat

\* JavaScript truthiness of a value that is a number, NaN or undefined.
Truthy(x) == x.t = "number" /\ x.m # 0

\* a || b
OrElse(a, b) == IF Truthy(a) THEN a ELSE b

(***************************************************************************)
(* Characters and character classes.                                       *)
(***************************************************************************)
Digits == {"0", "1", "2", "3", "4", "5", "6", "7", "8", "9"}

DigitVal(c) ==
    CASE c = "0" -> 0 [] c = "1" -> 1 [] c = "2" -> 2 [] c = "3" -> 3
      [] c = "4" -> 4 [] c = "5" -> 5 [] c = "6" -> 6 [] c = "7" -> 7
      [] c = "8" -> 8 [] c = "9" -> 9

LineEnds == {"\n", "\r"}
Spaces == {" ", "\t", "\f"} \cup LineEnds

\* A class is a set of characters or the complement of one.
Of(set) == [neg |-> FALSE, set |-> set]
Dot == [neg |-> TRUE, set |-> LineEnds]
InClass(c, cls) == (c \in cls.set) # cls.neg

One(cls) == [cls |-> cls, q |-> "one"]
Plus(cls) == [cls |-> cls, q |-> "plus"]
Star(cls) == [cls |-> cls, q |-> "star"]
Opt(cls) == [cls |-> cls, q |-> "opt"]

\* A letter under the i flag.
Ci(lower, upper) == One(Of({lower, upper}))

(***************************************************************************)
(* The per-field patterns of fetchLiveMetrics.  capFrom..capTo are the     *)
(* elements inside the first capture group.                                *)
(***************************************************************************)
CostPattern ==
    [elems |-> <<One(Of({"$"})), Plus(Of(Digits)), Opt(Of({"."})), Star(Of(Digits))>>,
     capFrom |-> 2, capTo |-> 4]

CarbonPattern ==
    [elems |-> <<Plus(Of(Digits)), Star(Of(Spaces)), Ci("k", "K"), Ci("g", "G"), Star(Of(Spaces)),
                 Ci("c", "C"), Ci("o", "O"), One(Of({"sub2", "2"}))>>,
     capFrom |-> 1, capTo |-> 1]

EfficiencyPattern ==
    [elems |-> <<Plus(Of(Digits)), One(Of({"%"})), Star(Dot),
                 Ci("e", "E"), Ci("f", "F"), Ci("f", "F"), Ci("i", "I"), Ci("c", "C"),
                 Ci("i", "I"), Ci("e", "E"), Ci("n", "N"), Ci("c", "C"), Ci("y", "Y")>>,
     capFrom |-> 1, capTo |-> 1]

TemperaturePattern ==
    [elems |-> <<Plus(Of(Digits)), Opt(Of({"."})), Star(Of(Digits)), One(Of({"deg", "degC"})),
                 One(Of({"C"}))>>,
     capFrom |-> 1, capTo |-> 3]

SolarPattern ==
    [elems |-> <<Plus(Of(Digits)), Star(Of(Spaces)), One(Of({"W"})), One(Of({"/"})), One(Of({"m"}))>>,
     capFrom |-> 1, capTo |-> 1]

PricePattern ==
    [elems |-> <<One(Of({"$"})), Plus(Of(Digits)), One(Of({"/"})), One(Of({"M"})), One(Of({"W"})),
                 One(Of({"h"}))>>,
     capFrom |-> 2, capTo |-> 2]

RenewablePattern ==
    [elems |-> <<Plus(Of(Digits)), One(Of({"%"})), Star(Dot),
                 Ci("r", "R"), Ci("e", "E"), Ci("n", "N"), Ci("e", "E"), Ci("w", "W"),
                 Ci("a", "A"), Ci("b", "B"), Ci("l", "L"), Ci("e", "E")>>,
     capFrom |-> 1, capTo |-> 1]

PatternNames == {"cost", "carbon", "efficiency", "temperature", "solar", "price", "renewable"}

PatternOf(name) ==
    CASE name = "cost" -> CostPattern
      [] name = "carbon" -> CarbonPattern
      [] name = "efficiency" -> EfficiencyPattern
      [] name = "temperature" -> TemperaturePattern
      [] name = "solar" -> SolarPattern
      [] name = "price" -> PricePattern
      [] name = "renewable" -> RenewablePattern

(***************************************************************************)
(* String.prototype.match with a pattern without the g flag: a             *)
(* backtracking match, leftmost start first, greedy quantifiers.           *)
(***************************************************************************)
NoMatch == [ok |-> FALSE]

\* Length of the longest run of characters of cls in text from position i on.
RECURSIVE Run(_, _, _)
Run(cls, text, i) ==
    IF i <= Len(text) /\ InClass(text[i], cls) THEN 1 + Run(cls, text, i + 1) ELSE 0

\* The positions after one element matched at i, in the order the engine tries them.
Ends(el, text, i) ==
    LET n == Run(el.cls, text, i)
    IN  CASE el.q = "one" -> IF n >= 1 THEN <<i + 1>> ELSE <<>>
          [] el.q = "opt" -> IF n >= 1 THEN <<i + 1, i>> ELSE <<i>>
          [] el.q = "plus" -> [j \in 1..n |-> i + n + 1 - j]
          [] el.q = "star" -> [j \in 1..(n + 1) |-> i + n + 1 - j]
          [] el.q = "lazy" -> [j \in 1..(n + 1) |-> i + j - 1]

\* Match elements k.. of p at position i; cs, ce: where the capture group starts and ends.
RECURSIVE MatchFrom(_, _, _, _, _, _), TryEnds(_, _, _, _, _, _, _)
MatchFrom(p, k, text, i, cs, ce) ==
    IF k > Len(p.elems) THEN [ok |-> TRUE, cs |-> cs, ce |-> ce]
    ELSE TryEnds(p, k, text, Ends(p.elems[k], text, i), 1,
                 IF k = p.capFrom THEN i ELSE cs, ce)

\* Try the ends of element k in order and keep the first after which the rest matches.
TryEnds(p, k, text, ends, j, cs, ce) ==
    IF j > Len(ends) THEN NoMatch
    ELSE LET r == MatchFrom(p, k + 1, text, ends[j], cs, IF k = p.capTo THEN ends[j] ELSE ce)
         IN  IF r.ok THEN r ELSE TryEnds(p, k, text, ends, j + 1, cs, ce)

\* The first capture group of the first match (match[1]), or NoMatch: the engine
\* tries the start positions from left to right.
Match(text, p) ==
    LET At(s) == MatchFrom(p, 1, text, s, 0, 0)
        starts == {s \in 1..(Len(text) + 1) : At(s).ok}
        first == CHOOSE s \in starts : \A r \in starts : s <= r
    IN  IF starts = {} THEN NoMatch
        ELSE [ok |-> TRUE, group |-> SubSeq(text, At(first).cs, At(first).ce - 1)]

(***************************************************************************)
(* parseFloat on an unsigned decimal literal without exponent: the longest *)
(* prefix digits [ "." digits ], NaN when the prefix holds no digit.       *)
(***************************************************************************)
RECURSIVE DigitsValue(_, _, _)
DigitsValue(s, i, n) == IF n = 0 THEN 0 ELSE DigitsValue(s, i, n - 1) * 10 + DigitVal(s[i + n - 1])

RECURSIVE Pow10(_)
Pow10(n) == IF n = 0 THEN 1 ELSE 10 * Pow10(n - 1)

parseFloat(s) ==
    LET ni == Run(Of(Digits), s, 1)
        dot == ni + 1 <= Len(s) /\ s[ni + 1] = "."
        nf == IF dot THEN Run(Of(Digits), s, ni + 2) ELSE 0
    IN  IF ni = 0 /\ nf = 0 THEN NaN
        ELSE Norm(DigitsValue(s, 1, ni) * Pow10(nf) + DigitsValue(s, ni + 2, nf), nf)

(***************************************************************************)
(* extractNumber                                                           *)
(***************************************************************************)
\* extractNumber with parseInt in the place of parseFloat.
extractNumberParseInt(text, regex) ==
    LET match == Match(text, regex)
    IN  IF match.ok
        THEN Num(DigitsValue(match.group, 1, Run(Of(Digits), match.group, 1)))
        ELSE Num(0)

extractNumber(text, regex) ==
    LET match == Match(text, regex)
    IN  IF match.ok THEN parseFloat(match.group) ELSE Num(0)

(***************************************************************************)
(* Texts.                                                                  *)
(***************************************************************************)
\* "Saved $85.50 today"
SavedText ==
    <<"S", "a", "v", "e", "d", " ", "$", "8", "5", ".", "5", "0", " ", "t", "o", "d", "a", "y">>

\* "no numbers here"
NoNumbersText ==
    <<"n", "o", " ", "n", "u", "m", "b", "e", "r", "s", " ", "h", "e", "r", "e">>

Chunks ==
    { <<"$">>, <<"8", "5">>, <<".">>, <<"0">>, <<" ">>, <<"%">>,
      <<"k", "g">>, <<"C", "O", "2">>, <<"deg", "C">>, <<"W", "/", "m">>,
      <<"/", "M", "W", "h">>,
      <<"E", "f", "f", "i", "c", "i", "e", "n", "c", "y">>,
      <<"r", "e", "n", "e", "w", "a", "b", "l", "e">> }

RECURSIVE ChunkTexts(_)
ChunkTexts(n) ==
    IF n = 0 THEN {<<>>}
    ELSE LET shorter == ChunkTexts(n - 1)
         IN  shorter \cup {t \o c : t \in shorter, c \in Chunks}

ExTexts == ChunkTexts(MaxChunks) \cup {SavedText, NoNumbersText}

(***************************************************************************)
(* The panels that poll on their own: EnergyChart (fetchLiveMetrics every  *)
(* 30 s), SustainabilityScore (every 60 s) and AWSSpotOptimization (every  *)
(* 5 min).  Their useState initial values.                                 *)
(***************************************************************************)
Panels == {"EnergyChart", "SustainabilityScore", "AWSSpotOptimization"}

\* currentConsumption and optimizedConsumption drift by a random amount on every
\* tick: base is the initial value, steps the number of increments added so far.
EnergyInitial ==
    [currentConsumption |-> [base |-> 2400, steps |-> 0],
     optimizedConsumption |-> [base |-> 2112, steps |-> 0],
     liveData |-> [costSavingsToday |-> Num(0), carbonReduced |-> Num(0),
                   efficiencyGain |-> Num(0), temperature |-> Num(0),
                   solarIrradiance |-> Num(0), energyPrice |-> Num(0),
                   renewablePct |-> Num(0), sustainabilityScore |-> Num(0)]]

CategoryNames ==
    <<"Energy Efficiency", "Carbon Footprint", "Resource Optimization", "Waste Reduction">>

ScoreInitial ==
    [overallScore |-> Num(0),
     isLoading |-> TRUE,
     categories |-> [i \in 1..4 |-> [name |-> CategoryNames[i], score |-> Num(0)]],
     performanceText |-> "Loading...",
     performanceDesc |-> "Calculating sustainability metrics...",
     recommendations |-> <<>>]

SpotFields == {"costSavings", "carbonReduction", "carbonSavedKg", "renewableAvg"}

SpotInitial ==
    [isLoading |-> TRUE,
     spotWindows |-> <<>>,
     metrics |-> [costSavings |-> Num(75), carbonReduction |-> Num(45),
                  carbonSavedKg |-> Num(156), renewableAvg |-> Num(68)]]

NoPanelStep == [kind |-> "init", view |-> "none", seq |-> 0, reply |-> [kind |-> "none"]]

\* The panels are not rendered.
PanelIdle ==
    /\ pstatus = [v \in Panels |-> "absent"]
    /\ pinterval = [v \in Panels |-> FALSE]
    /\ pinflight = [v \in Panels |-> {}]
    /\ pnextSeq = [v \in Panels |-> 0]
    /\ energy = EnergyInitial
    /\ score = ScoreInitial
    /\ spot = SpotInitial
    /\ spotOrigin = [f \in SpotFields |-> 0]
    /\ plast = NoPanelStep

\* No chat is exercised.
ChatIdle ==
    /\ chatView = "none" /\ messages = <<>> /\ input = "" /\ isTyping = FALSE
    /\ isOpen = FALSE /\ unreadCount = 0 /\ outstanding = {} /\ sent = 0 /\ clockMs = 0

(***************************************************************************)
(* Runs of the extractor on one text and one pattern.                      *)
(***************************************************************************)
PollIdle ==
    /\ status = "none" /\ interval = "none" /\ inflight = "none" /\ nextSeq = "none"
    /\ liveMetrics = "none" /\ isLoading = "none" /\ applied = "none"
    /\ maxResolved = "none" /\ last = "none"

ExIdle == exText = <<>> /\ exPat = "none" /\ exResult = Num(0) /\ exPc = "none"

GwIdle ==
    /\ gwClient = "none" /\ gwPrompt = "none" /\ gwNet = "none" /\ gwResult = "none"
    /\ gwPc = "none"

CacheIdle ==
    /\ cache = {} /\ now = 0 /\ calls = 0 /\ created = "none" /\ lastReply = "none"
    /\ pending = {}

ExInit ==
    /\ exText \in ExTexts
    /\ exPat \in PatternNames
    /\ exResult = Num(0)
    /\ exPc = "ready"
    /\ PollIdle /\ GwIdle /\ CacheIdle /\ PanelIdle /\ ChatIdle

Extract ==
    /\ exPc = "ready"
    /\ exResult' = extractNumber(exText, PatternOf(exPat))
    /\ exPc' = "done"
    /\ UNCHANGED <<exText, exPat, pollVars, gwVars, cacheVars, panelVars, chatVars>>

ExNext == Extract

SpecExtract == ExInit /\ [][ExNext]_vars

(***************************************************************************)
(* What a pattern denotes, stated without the engine's search: where the   *)
(* pattern can match at all, and the greedy choice of each element as the  *)
(* longest one after which the rest of the pattern can still match.        *)
(***************************************************************************)
EndSet(el, text, i) ==
    LET run == {e \in i..(Len(text) + 1) : \A x \in i..(e - 1) : InClass(text[x], el.cls)}
    IN  CASE el.q = "one" -> run \cap {i + 1}
          [] el.q = "opt" -> run \cap {i, i + 1}
          [] el.q = "plus" -> run \ {i}
          [] el.q = "star" -> run

RECURSIVE CanMatch(_, _, _, _)
CanMatch(p, k, text, i) ==
    \/ k > Len(p.elems)
    \/ \E e \in EndSet(p.elems[k], text, i) : CanMatch(p, k + 1, text, e)

HasMatch(text, p) == \E s \in 1..(Len(text) + 1) : CanMatch(p, 1, text, s)

FirstStart(text, p) ==
    CHOOSE s \in 1..(Len(text) + 1) :
        /\ CanMatch(p, 1, text, s)
        /\ \A r \in 1..(s - 1) : ~CanMatch(p, 1, text, r)

\* Where element k of the first match ends (k = 0: where the match starts).
RECURSIVE PosAfter(_, _, _)
PosAfter(text, p, k) ==
    IF k = 0 THEN FirstStart(text, p)
    ELSE LET i == PosAfter(text, p, k - 1)
             ok == {e \in EndSet(p.elems[k], text, i) : CanMatch(p, k + 1, text, e)}
         IN  CHOOSE e \in ok : \A f \in ok : f <= e

FirstGroup(text, p) ==
    SubSeq(text, PosAfter(text, p, p.capFrom - 1), PosAfter(text, p, p.capTo) - 1)

\* The number a decimal numeral digits [ "." [digits] ] denotes.
RECURSIVE Weighted(_)
Weighted(ds) == IF ds = <<>> THEN 0 ELSE DigitVal(ds[Len(ds)]) + 10 * Weighted(SubSeq(ds, 1, Len(ds) - 1))

Denoted(numeral) ==
    LET IsDigit(c) == c \in Digits
        dots == {i \in 1..Len(numeral) : numeral[i] = "."}
        nf == IF dots = {} THEN 0 ELSE Len(numeral) - (CHOOSE i \in dots : TRUE)
    IN  Norm(Weighted(SelectSeq(numeral, IsDigit)), nf)

\* C9: extract(text, pattern) is the number denoted by the first capture group of
\* the first match of the pattern in the text, and 0 when the pattern matches
\* nowhere; "Saved $85.50 today" with the dollar pattern gives 85.5 and
\* "no numbers here" gives 0.
ExtractionCorrect ==
    exPc = "done" =>
        /\ exResult = IF HasMatch(exText, PatternOf(exPat))
                      THEN Denoted(FirstGroup(exText, PatternOf(exPat)))
                      ELSE Num(0)
        /\ exText = SavedText /\ exPat = "cost" => exResult = [t |-> "number", m |-> 855, e |-> 1]
        /\ exText = NoNumbersText => exResult = Num(0)

ExtractionWitness ==
    /\ exPc = "done" /\ exText = SavedText /\ exPat = "cost"
    /\ exResult = [t |-> "number", m |-> 855, e |-> 1]

(***************************************************************************)
(* What the network hands to a fetch: the transport fails, the body is not *)
(* JSON, or the body is a JSON value.                                      *)
(***************************************************************************)
\* "$120.5 200kg CO2 15% efficiency 22.5(deg)C 410W/m $70/MWh 60% renewable"
FullText ==
    <<"$", "1", "2", "0", ".", "5", " ", "2", "0", "0", "k", "g", " ", "C", "O", "2", " ",
      "1", "5", "%", " ", "e", "f", "f", "i", "c", "i", "e", "n", "c", "y", " ", "2", "2",
      ".", "5", "deg", "C", " ", "4", "1", "0", "W", "/", "m", " ", "$", "7", "0", "/",
      "M", "W", "h", " ", "6", "0", "%", " ", "r", "e", "n", "e", "w", "a", "b", "l", "e">>

\* "Saved $99 today"
Saved99Text ==
    <<"S", "a", "v", "e", "d", " ", "$", "9", "9", " ", "t", "o", "d", "a", "y">>

\* "250% renewable"
OverRangeText ==
    <<"2", "5", "0", "%", " ", "r", "e", "n", "e", "w", "a", "b", "l", "e">>

Absent == [t |-> "absent"]
Str(s) == [t |-> "string", s |-> s]

JsonNull == [t |-> "null"]
JsonObject(st, resp, data, msg) ==
    [t |-> "object", status |-> st, response |-> resp, data |-> data, message |-> msg]

TransportFailure == [kind |-> "transport", ok |-> FALSE, json |-> JsonNull]
Unparseable == [kind |-> "unparseable", ok |-> TRUE, json |-> JsonNull]
Body(ok, json) == [kind |-> "json", ok |-> ok, json |-> json]

CostData == [t |-> "object", cost_savings |-> Num(42)]
AgentFailed == Str(<<"b", "u", "s", "y">>)

SuccessFull == Body(TRUE, JsonObject("success", Str(FullText), Absent, Absent))
SuccessWithData == Body(TRUE, JsonObject("success", Str(Saved99Text), CostData, Absent))
SuccessNoNumbers == Body(TRUE, JsonObject("success", Str(NoNumbersText), Absent, Absent))
SuccessNoText == Body(TRUE, JsonObject("success", Absent, CostData, Absent))
SuccessOverRange == Body(TRUE, JsonObject("success", Str(OverRangeText), Absent, Absent))
ErrorReply == Body(TRUE, JsonObject("error", Absent, Absent, AgentFailed))
ErrorNoMessage == Body(TRUE, JsonObject("error", Absent, Absent, Absent))
ServerError == Body(FALSE, JsonObject("error", Absent, Absent, AgentFailed))
NullBody == Body(TRUE, JsonNull)
NumberResponse == Body(TRUE, JsonObject("success", Num(7), Absent, Absent))

\* The replies the pollers meet.
Replies ==
    {TransportFailure, Unparseable, SuccessFull, SuccessWithData, SuccessNoNumbers,
     ErrorReply, NullBody, NumberResponse}

IsSuccess(reply) ==
    reply.kind = "json" /\ reply.ok /\ reply.json.t = "object" /\ reply.json.status = "success"

IsErrorReply(reply) ==
    reply.kind = "json" /\ reply.json.t = "object" /\ reply.json.status = "error"

(***************************************************************************)
(* fetchLiveMetrics                                                        *)
(***************************************************************************)
Fields ==
    {"costSavingsToday", "carbonReduced", "efficiencyGain", "temperature",
     "solarIrradiance", "energyPrice", "renewablePct", "sustainabilityScore"}

\* A catch branch that returns zeros, like the initial snapshot of MetricsHero.
FallbackMetricsZero == [f \in Fields |-> Num(0)]

\* The constants of the catch branch.
FallbackMetrics ==
    [costSavingsToday |-> Norm(8550, 2), carbonReduced |-> Num(180),
     efficiencyGain |-> Num(12), temperature |-> Num(24), solarIrradiance |-> Num(300),
     energyPrice |-> Num(65), renewablePct |-> Num(55), sustainabilityScore |-> Num(87)]

JsTruthy(v) ==
    CASE v.t = "string" -> v.s # <<>>
      [] v.t = "number" -> v.m # 0
      [] OTHER -> FALSE

\* The object of the return statement inside the try block.
ExtractedMetrics(text) ==
    [costSavingsToday |-> extractNumber(text, CostPattern),
     carbonReduced |-> extractNumber(text, CarbonPattern),
     efficiencyGain |-> OrElse(extractNumber(text, EfficiencyPattern), Num(12)),
     temperature |-> extractNumber(text, TemperaturePattern),
     solarIrradiance |-> extractNumber(text, SolarPattern),
     energyPrice |-> extractNumber(text, PricePattern),
     renewablePct |-> extractNumber(text, RenewablePattern),
     sustainabilityScore |-> Num(87)]

\* Whether the try block throws: fetch or response.json() rejects, json is null
\* (json.response is a TypeError), or text is not a string (text.match is not a function).
TryThrows(reply) ==
    \/ reply.kind # "json"
    \/ reply.json.t # "object"
    \/ JsTruthy(reply.json.response) /\ reply.json.response.t # "string"

\* const text = json.response || ''
ResponseText(json) == IF JsTruthy(json.response) THEN json.response.s ELSE <<>>

\* fetchLiveMetrics with a catch block that rethrows.
fetchLiveMetricsRethrow(reply) ==
    IF TryThrows(reply)
    THEN [settled |-> "rejected", value |-> FallbackMetrics]
    ELSE [settled |-> "fulfilled", value |-> ExtractedMetrics(ResponseText(reply.json))]

\* How the promise of fetchLiveMetrics settles, given what the network did.
fetchLiveMetrics(reply) ==
    IF TryThrows(reply)
    THEN [settled |-> "fulfilled", value |-> FallbackMetrics]
    ELSE [settled |-> "fulfilled", value |-> ExtractedMetrics(ResponseText(reply.json))]

\* The replies EnergyChart's fetchLiveMetrics calls meet.
EnergyReplies == {TransportFailure, SuccessFull, SuccessOverRange, ErrorReply}

\* fetchLiveMetrics on each reply of the model, evaluated once.
Fetched == [reply \in Replies \cup EnergyReplies |-> fetchLiveMetrics(reply)]

(***************************************************************************)
(* The polling effects of App and MetricsHero.                             *)
(***************************************************************************)
Views == {"App", "MetricsHero"}

\* useState initial values.
InitialMetrics(v) ==
    IF v = "App"
    THEN [costSavingsToday |-> Norm(8550, 2), carbonReduced |-> Num(180),
          efficiencyGain |-> Num(12), temperature |-> Num(24), solarIrradiance |-> Num(300),
          energyPrice |-> Num(65), renewablePct |-> Num(55), sustainabilityScore |-> Num(87)]
    ELSE [f \in Fields |-> Num(0)]

NoStep ==
    [kind |-> "init", view |-> "none", seq |-> 0, reply |-> TransportFailure,
     settled |-> "none", before |-> InitialMetrics("App"), beforeSuccess |-> FALSE,
     status |-> "fresh"]

\* App and MetricsHero are not rendered.
PollAbsent ==
    /\ status = [v \in Views |-> "absent"]
    /\ interval = [v \in Views |-> FALSE]
    /\ inflight = [v \in Views |-> {}]
    /\ nextSeq = [v \in Views |-> 0]
    /\ liveMetrics = [v \in Views |-> InitialMetrics(v)]
    /\ isLoading = TRUE
    /\ applied = [v \in Views |-> [seq |-> 0, success |-> FALSE]]
    /\ maxResolved = [v \in Views |-> 0]
    /\ last = NoStep

PollInit ==
    /\ status = [v \in Views |-> "fresh"]
    /\ interval = [v \in Views |-> FALSE]
    /\ inflight = [v \in Views |-> {}]
    /\ nextSeq = [v \in Views |-> 0]
    /\ liveMetrics = [v \in Views |-> InitialMetrics(v)]
    /\ isLoading = TRUE
    /\ applied = [v \in Views |-> [seq |-> 0, success |-> FALSE]]
    /\ maxResolved = [v \in Views |-> 0]
    /\ last = NoStep
    /\ ExIdle /\ GwIdle /\ CacheIdle /\ PanelIdle /\ ChatIdle

\* A call of fetchLiveMetrics() by view v; kind tells which .then callback awaits it.
Issue(v, kind, st) ==
    /\ nextSeq' = [nextSeq EXCEPT ![v] = @ + 1]
    /\ inflight' = [inflight EXCEPT ![v] = @ \cup {[seq |-> nextSeq[v] + 1, kind |-> kind]}]
    /\ last' = [NoStep EXCEPT !.kind = kind, !.view = v, !.seq = nextSeq[v] + 1,
                              !.status = st]

\* The effect runs on mount: one fetch at once, and the 30 s timer is armed.
Mount(v) ==
    /\ status[v] = "fresh"
    /\ status' = [status EXCEPT ![v] = "mounted"]
    /\ interval' = [interval EXCEPT ![v] = TRUE]
    /\ Issue(v, "mount", "mounted")
    /\ UNCHANGED <<liveMetrics, isLoading, applied, maxResolved, exVars, gwVars, cacheVars, panelVars, chatVars>>

\* The timer fires.
Tick(v) ==
    /\ interval[v]
    /\ nextSeq[v] < MaxFetches
    /\ Issue(v, "tick", status[v])
    /\ UNCHANGED <<status, interval, liveMetrics, isLoading, applied, maxResolved,
                   exVars, gwVars, cacheVars, panelVars, chatVars>>

\* A setter of one store that all views read.
SetMetricsShared(v, data) == liveMetrics' = [w \in Views |-> data]

\* The state setter of the view, called from the .then callback.
SetMetrics(v, data) == liveMetrics' = [liveMetrics EXCEPT ![v] = data]

\* A .then callback that gives up polling when the fetch did not succeed.
ResolveStopsOnFailure(v, f, reply) ==
    LET result == Fetched[reply]
    IN  /\ f \in inflight[v]
        /\ inflight' = [inflight EXCEPT ![v] = @ \ {f}]
        /\ maxResolved' = [maxResolved EXCEPT ![v] = IF f.seq > @ THEN f.seq ELSE @]
        /\ SetMetrics(v, result.value)
        /\ isLoading' = IF v = "MetricsHero" /\ f.kind = "mount" THEN FALSE ELSE isLoading
        /\ applied' = [applied EXCEPT ![v] = [seq |-> f.seq, success |-> IsSuccess(reply)]]
        /\ interval' = [interval EXCEPT ![v] = @ /\ IsSuccess(reply)]
        /\ last' = [kind |-> "resolve", view |-> v, seq |-> f.seq, reply |-> reply,
                    settled |-> result.settled, before |-> liveMetrics[v],
                    beforeSuccess |-> applied[v].success, status |-> status[v]]
        /\ UNCHANGED <<status, nextSeq, exVars, gwVars, cacheVars, panelVars, chatVars>>

\* An outstanding fetch of v settles and its .then callback runs.
Resolve(v, f, reply) ==
    LET result == Fetched[reply]
    IN  /\ f \in inflight[v]
        /\ inflight' = [inflight EXCEPT ![v] = @ \ {f}]
        /\ maxResolved' = [maxResolved EXCEPT ![v] = IF f.seq > @ THEN f.seq ELSE @]
        /\ IF result.settled = "fulfilled"
           THEN /\ SetMetrics(v, result.value)
                /\ isLoading' = IF v = "MetricsHero" /\ f.kind = "mount" THEN FALSE ELSE isLoading
                /\ applied' = [applied EXCEPT ![v] = [seq |-> f.seq, success |-> IsSuccess(reply)]]
           ELSE UNCHANGED <<liveMetrics, isLoading, applied>>
        /\ last' = [kind |-> "resolve", view |-> v, seq |-> f.seq, reply |-> reply,
                    settled |-> result.settled, before |-> liveMetrics[v],
                    beforeSuccess |-> applied[v].success, status |-> status[v]]
        /\ UNCHANGED <<status, interval, nextSeq, exVars, gwVars, cacheVars, panelVars, chatVars>>

\* A cleanup that leaves the timer armed.
UnmountKeepsTimer(v) ==
    /\ status[v] = "mounted"
    /\ status' = [status EXCEPT ![v] = "unmounted"]
    /\ last' = [NoStep EXCEPT !.kind = "unmount", !.view = v, !.status = "unmounted"]
    /\ UNCHANGED <<interval, inflight, nextSeq, liveMetrics, isLoading, applied, maxResolved,
                   exVars, gwVars, cacheVars, panelVars, chatVars>>

\* The effect's cleanup: clearInterval(interval).
Unmount(v) ==
    /\ status[v] = "mounted"
    /\ status' = [status EXCEPT ![v] = "unmounted"]
    /\ interval' = [interval EXCEPT ![v] = FALSE]
    /\ last' = [NoStep EXCEPT !.kind = "unmount", !.view = v, !.status = "unmounted"]
    /\ UNCHANGED <<inflight, nextSeq, liveMetrics, isLoading, applied, maxResolved,
                   exVars, gwVars, cacheVars, panelVars, chatVars>>

PollNext ==
    \E v \in Views :
        \/ Mount(v)
        \/ Tick(v)
        \/ Unmount(v)
        \/ \E f \in inflight[v], reply \in Replies : Resolve(v, f, reply)

Spec == PollInit /\ [][PollNext]_vars

(***************************************************************************)
(* SustainabilityScore: fetchScore.                                        *)
(***************************************************************************)
IsObject(v) == v.t = "object"
IsArray(v) == v.t = "array"
Array(items) == [t |-> "array", items |-> items]

\* x >= n for an exact decimal x and a natural n.
AtLeast(x, n) == x.m >= n * Pow10(x.e)

ScoreData(sc, recs) == [t |-> "object", sustainability_score |-> sc, recommendations |-> recs]
ScoreReply(sc, recs) == Body(TRUE, JsonObject("success", Absent, ScoreData(sc, recs), Absent))

InsulateRec == [t |-> "object", action |-> "Insulate roof", impact |-> "-8% energy"]

\* "Energy 91%": a response text that mentions one category score.
CategoryText == <<"E", "n", "e", "r", "g", "y", " ", "9", "1", "%">>

\* A success with data and with a response text.
ScoreWithText ==
    Body(TRUE, JsonObject("success", Str(CategoryText), ScoreData(Num(40), Absent), Absent))

\* The scores are the lower ends of the bands, and 0.
ScoreReplies ==
    {TransportFailure, ErrorReply,
     ScoreReply(Num(80), Absent), ScoreReply(Num(60), Array(<<InsulateRec>>)),
     ScoreWithText, ScoreReply(Num(20), Absent), ScoreReply(Num(0), Absent)}

\* The bands with > in the place of >=.
PerformanceTextStrict(sc) ==
    IF sc.m > 80 * Pow10(sc.e) THEN "Excellent Performance"
    ELSE IF sc.m > 60 * Pow10(sc.e) THEN "Good Performance"
    ELSE IF sc.m > 40 * Pow10(sc.e) THEN "Needs Improvement"
    ELSE "Action Required"

PerformanceText(sc) ==
    IF AtLeast(sc, 80) THEN "Excellent Performance"
    ELSE IF AtLeast(sc, 60) THEN "Good Performance"
    ELSE IF AtLeast(sc, 40) THEN "Needs Improvement"
    ELSE "Action Required"

PerformanceDesc(sc) ==
    IF AtLeast(sc, 80) THEN "Your infrastructure exceeds AWS sustainability best practices"
    ELSE IF AtLeast(sc, 60)
         THEN "Meeting most sustainability targets with room for improvement"
    ELSE IF AtLeast(sc, 40)
         THEN "Several opportunities to enhance sustainability performance"
    ELSE "Significant improvements needed to meet sustainability goals"

\* A recommendation is the sequence of the parts of its text.
RecText(rec) == <<rec.action, " -> ", rec.impact>>

DefaultRecs(sc) ==
    IF ~AtLeast(sc, 70)
    THEN << <<"Shift workloads to high renewable energy periods">>,
            <<"Optimize HVAC settings during peak demand">>,
            <<"Schedule cloud computing during low-carbon windows">> >>
    ELSE << <<"Maintain current optimization strategies">>,
            <<"Monitor for renewable energy opportunities">>,
            <<"Continue efficient resource utilization">> >>

\* The state setters fetchScore has called when it returns, applied to prev.  Line 81
\* reads text, which no declaration of the file binds: once the reply is a success
\* with data, the ReferenceError ends the try block before setCategories and the
\* catch block calls setIsLoading(false).
fetchScore(reply, prev) ==
    IF reply.kind # "json" \/ ~IsObject(reply.json)
    THEN [prev EXCEPT !.isLoading = FALSE]
    ELSE IF ~(reply.json.status = "success" /\ IsObject(reply.json.data))
    THEN prev
    ELSE LET data == reply.json.data
             sc == data.sustainability_score
             scored == IF JsTruthy(sc)
                       THEN [prev EXCEPT !.overallScore = sc, !.isLoading = FALSE,
                                         !.performanceText = PerformanceText(sc),
                                         !.performanceDesc = PerformanceDesc(sc)]
                       ELSE prev
             advised == IF IsArray(data.recommendations)
                        THEN [scored EXCEPT !.recommendations =
                                 [i \in DOMAIN data.recommendations.items |->
                                     RecText(data.recommendations.items[i])]]
                        ELSE IF JsTruthy(sc)
                        THEN [scored EXCEPT !.recommendations = DefaultRecs(sc)]
                        ELSE scored
         IN  [advised EXCEPT !.isLoading = FALSE]

(***************************************************************************)
(* AWSSpotOptimization: fetchSpotData.                                     *)
(***************************************************************************)
ClimateImpact(kg, pct) ==
    [t |-> "object", daily_carbon_saved_kg |-> kg, renewable_energy_used_pct |-> pct]

SpotData(cost, carbon, impact, windows) ==
    [t |-> "object", cost_savings_pct |-> cost, carbon_reduction_pct |-> carbon,
     climate_impact |-> impact, optimal_windows |-> windows]

SpotReply(data) == Body(TRUE, JsonObject("success", Absent, data, Absent))

\* start_time and end_time are given by the local hour their Date has.
NightWindow ==
    [t |-> "object", start_time |-> 1, end_time |-> 13, renewable_pct |-> Num(81),
     spot_price_usd |-> Norm(41, 3), carbon_intensity |-> Norm(3, 1),
     recommendation |-> "Run batch jobs"]

SpotCarbonOnly == SpotReply(SpotData(Absent, Num(50), Absent, Absent))
SpotZeroCost == SpotReply(SpotData(Num(0), Num(30), Absent, Absent))
SpotAll ==
    SpotReply(SpotData(Num(70), Num(40), ClimateImpact(Num(120), Num(90)),
                       Array(<<NightWindow>>)))
SpotNullWindow == SpotReply(SpotData(Num(60), Absent, Absent, Array(<<JsonNull>>)))

SpotReplies ==
    {TransportFailure, ErrorReply, SpotCarbonOnly, SpotZeroCost, SpotAll, SpotNullWindow}

\* formatTime of formatTimeWindow: the hour on the 12-hour clock, minutes dropped.
FormatTime(hours) ==
    <<IF hours % 12 = 0 THEN 12 ELSE hours % 12, ":00 ", IF hours >= 12 THEN "PM" ELSE "AM">>

formatTimeWindow(start, end) == FormatTime(start) \o <<" - ">> \o FormatTime(end)

\* One element of data.optimal_windows.map(...).
SpotWindow(w) ==
    [time |-> formatTimeWindow(w.start_time, w.end_time),
     renewable |-> OrElse(w.renewable_pct, Num(0)),
     spotPrice |-> OrElse(w.spot_price_usd, Num(0)),
     onDemand |-> Norm(192, 3),
     savings |-> Num(75),
     carbonIntensity |-> OrElse(w.carbon_intensity, Num(0)),
     recommendation |-> w.recommendation]   \* w.recommendation || '' of a string

\* The windows of the catch block.
FallbackWindows ==
    << [time |-> <<2, ":00 ", "AM", " - ", 6, ":00 ", "AM">>, renewable |-> Num(65),
        spotPrice |-> Norm(48, 3), onDemand |-> Norm(192, 3), savings |-> Num(75),
        carbonIntensity |-> Norm(45, 2), recommendation |-> "Optimal for batch processing"],
       [time |-> <<2, ":00 ", "PM", " - ", 6, ":00 ", "PM">>, renewable |-> Num(72),
        spotPrice |-> Norm(52, 3), onDemand |-> Norm(192, 3), savings |-> Num(73),
        carbonIntensity |-> Norm(38, 2),
        recommendation |-> "Peak solar - best for ML training"] >>

\* The structured field a metric is read from (undefined when its parent is missing).
SpotField(data, f) ==
    CASE f = "costSavings" -> data.cost_savings_pct
      [] f = "carbonReduction" -> data.carbon_reduction_pct
      [] f = "carbonSavedKg" ->
            IF IsObject(data.climate_impact)
            THEN data.climate_impact.daily_carbon_saved_kg ELSE Undefined
      [] f = "renewableAvg" ->
            IF IsObject(data.climate_impact)
            THEN data.climate_impact.renewable_energy_used_pct ELSE Undefined

\* The reply is a success that carries data.
SpotHasData(reply) ==
    /\ reply.kind = "json" /\ IsObject(reply.json)
    /\ reply.json.status = "success" /\ IsObject(reply.json.data)

\* The metric fields the four guarded setMetrics(prev => ({...prev, field})) patch.
SpotPatched(reply) ==
    IF SpotHasData(reply)
    THEN {f \in SpotFields : JsTruthy(SpotField(reply.json.data, f))}
    ELSE {}

\* The state setters fetchSpotData has called when it returns, applied to prev.
fetchSpotData(reply, prev) ==
    IF reply.kind # "json" \/ ~IsObject(reply.json)
    THEN [prev EXCEPT !.spotWindows = FallbackWindows, !.isLoading = FALSE]
    ELSE IF ~SpotHasData(reply)
    THEN [prev EXCEPT !.isLoading = FALSE]
    ELSE LET data == reply.json.data
             patched == [prev EXCEPT !.metrics =
                            [f \in SpotFields |->
                                IF f \in SpotPatched(reply)
                                THEN SpotField(data, f) ELSE prev.metrics[f]]]
             windows == data.optimal_windows
         IN  IF ~IsArray(windows)
             THEN [patched EXCEPT !.isLoading = FALSE]
             ELSE IF \E i \in DOMAIN windows.items : ~IsObject(windows.items[i])
             THEN [patched EXCEPT !.spotWindows = FallbackWindows, !.isLoading = FALSE]
             ELSE [patched EXCEPT !.spotWindows =
                                     [i \in DOMAIN windows.items |-> SpotWindow(windows.items[i])],
                                  !.isLoading = FALSE]

(***************************************************************************)
(* The polling effects of the three panels.  All state setters one handler *)
(* calls are applied together when it returns.                             *)
(***************************************************************************)
PanelReplies(v) ==
    CASE v = "EnergyChart" -> EnergyReplies
      [] v = "SustainabilityScore" -> ScoreReplies
      [] v = "AWSSpotOptimization" -> SpotReplies

PanelIssued ==
    pnextSeq["EnergyChart"] + pnextSeq["SustainabilityScore"] + pnextSeq["AWSSpotOptimization"]

PanelInit ==
    /\ pstatus = [v \in Panels |-> "fresh"]
    /\ pinterval = [v \in Panels |-> FALSE]
    /\ pinflight = [v \in Panels |-> {}]
    /\ pnextSeq = [v \in Panels |-> 0]
    /\ energy = EnergyInitial
    /\ score = ScoreInitial
    /\ spot = SpotInitial
    /\ spotOrigin = [f \in SpotFields |-> 0]
    /\ plast = NoPanelStep
    /\ PollAbsent /\ ExIdle /\ GwIdle /\ CacheIdle /\ ChatIdle

\* A call of the panel's fetch function (fetchLiveMetrics, fetchScore, fetchSpotData).
PanelIssue(v, kind) ==
    /\ pnextSeq[v] < MaxFetches
    /\ PanelIssued < MaxPanelFetches
    /\ pnextSeq' = [pnextSeq EXCEPT ![v] = @ + 1]
    /\ pinflight' = [pinflight EXCEPT ![v] = @ \cup {pnextSeq[v] + 1}]
    /\ plast' = [NoPanelStep EXCEPT !.kind = kind, !.view = v, !.seq = pnextSeq[v] + 1]

\* The panel's effect runs on mount: one fetch at once, and the timer is armed.
PanelMount(v) ==
    /\ pstatus[v] = "fresh"
    /\ pstatus' = [pstatus EXCEPT ![v] = "mounted"]
    /\ pinterval' = [pinterval EXCEPT ![v] = TRUE]
    /\ PanelIssue(v, "mount")
    /\ UNCHANGED <<energy, score, spot, spotOrigin, pollVars, exVars, gwVars, cacheVars, chatVars>>

\* Two more random increments, made by EnergyChart's timer callback before its fetch.
Drift(e) ==
    [e EXCEPT !.currentConsumption.steps = @ + 1, !.optimizedConsumption.steps = @ + 1]

\* The panel's timer fires.
PanelTick(v) ==
    /\ pinterval[v]
    /\ PanelIssue(v, "tick")
    /\ energy' = IF v = "EnergyChart" THEN Drift(energy) ELSE energy
    /\ UNCHANGED <<pstatus, pinterval, score, spot, spotOrigin,
                   pollVars, exVars, gwVars, cacheVars, chatVars>>

\* An outstanding fetch of the panel settles and the rest of its handler runs.
PanelResolve(v, seq, reply) ==
    /\ seq \in pinflight[v]
    /\ pinflight' = [pinflight EXCEPT ![v] = @ \ {seq}]
    /\ energy' = IF v = "EnergyChart"
                 THEN [energy EXCEPT !.liveData = Fetched[reply].value] ELSE energy
    /\ score' = IF v = "SustainabilityScore" THEN fetchScore(reply, score) ELSE score
    /\ spot' = IF v = "AWSSpotOptimization" THEN fetchSpotData(reply, spot) ELSE spot
    /\ spotOrigin' = IF v = "AWSSpotOptimization"
                     THEN [f \in SpotFields |->
                              IF f \in SpotPatched(reply) THEN seq ELSE spotOrigin[f]]
                     ELSE spotOrigin
    /\ plast' = [kind |-> "resolve", view |-> v, seq |-> seq, reply |-> reply]
    /\ UNCHANGED <<pstatus, pinterval, pnextSeq, pollVars, exVars, gwVars, cacheVars, chatVars>>

\* The effect's cleanup: clearInterval(interval).
PanelUnmount(v) ==
    /\ pstatus[v] = "mounted"
    /\ pstatus' = [pstatus EXCEPT ![v] = "unmounted"]
    /\ pinterval' = [pinterval EXCEPT ![v] = FALSE]
    /\ plast' = [NoPanelStep EXCEPT !.kind = "unmount", !.view = v]
    /\ UNCHANGED <<pinflight, pnextSeq, energy, score, spot, spotOrigin,
                   pollVars, exVars, gwVars, cacheVars, chatVars>>

PanelNext ==
    \E v \in Panels :
        \/ PanelMount(v)
        \/ PanelTick(v)
        \/ PanelUnmount(v)
        \/ \E seq \in pinflight[v], reply \in PanelReplies(v) : PanelResolve(v, seq, reply)

SpecPanels == PanelInit /\ [][PanelNext]_vars

\* All five polling views of the dashboard.  Each holds its state in its own useState
\* cells, so the views of App.tsx and the panels are run side by side in separate
\* behaviours.
SpecDashboard == (PollInit \/ PanelInit) /\ [][PollNext \/ PanelNext]_vars

(***************************************************************************)
(* Properties of the pollers.  last is the step just taken: for a resolve  *)
(* step it holds the view, the reply, the snapshot before the step, whether *)
(* that snapshot came from a successful fetch, and whether the view was    *)
(* still mounted.                                                          *)
(***************************************************************************)
Resolved == last.kind = "resolve"

\* C1: if the exposed snapshot is S after a successful fetch, it is still S after a
\* subsequent fetch that failed in transport or whose reply could not be parsed.
NoRegressionFromError ==
    Resolved /\ last.beforeSuccess /\ last.reply.kind \in {"transport", "unparseable"}
        => liveMetrics[last.view] = last.before

\* C2: after any sequence of fetch outcomes every one of the eight fields of every
\* exposed snapshot is present and a number, and fetchLiveMetrics never rejects.
SnapshotComplete ==
    /\ \A v \in Views :
        /\ DOMAIN liveMetrics[v] = Fields
        /\ \A f \in Fields : IsNumber(liveMetrics[v][f])
    /\ Resolved => last.settled = "fulfilled"

SnapshotCompleteWitness ==
    /\ Resolved /\ last.reply = NullBody /\ last.view = "MetricsHero"
    /\ last.beforeSuccess
    /\ liveMetrics["MetricsHero"] = FallbackMetrics
    /\ liveMetrics["App"].costSavingsToday = Num(0)

\* C3: a result from an older fetch never overwrites the result of a newer one: the
\* applied snapshot is the one of the latest-issued fetch among those resolved.
OverlapOrdering == \A v \in Views : applied[v].seq = maxResolved[v]

StructuredPrecedence ==
    Resolved /\ IsSuccess(last.reply) /\ last.reply.json.data.t = "object"
        => liveMetrics[last.view].costSavingsToday = last.reply.json.data.cost_savings

\* The pattern of each extracted field.
FieldPattern ==
    [costSavingsToday |-> "cost", carbonReduced |-> "carbon", efficiencyGain |-> "efficiency",
     temperature |-> "temperature", solarIrradiance |-> "solar", energyPrice |-> "price",
     renewablePct |-> "renewable"]

\* Whether the text of a successful reply matches the pattern of a field.
TextMatches ==
    [reply \in {r \in Replies : IsSuccess(r)} |->
        [f \in DOMAIN FieldPattern |->
            Match(ResponseText(reply.json), PatternOf(FieldPattern[f])).ok]]

\* C6: in the polling path a field with neither a structured value nor a text match
\* in a successful reply keeps the value of the previous snapshot (never becomes 0).
NoMatchKeepsPrevious ==
    Resolved /\ IsSuccess(last.reply) /\ ~TryThrows(last.reply)
        => \A f \in DOMAIN FieldPattern :
            last.reply.json.data.t = "absent" /\ ~TextMatches[last.reply][f]
                => liveMetrics[last.view][f] = last.before[f]

\* C7: in the polling path a reply with status "error" leaves the snapshot equal to
\* the prior one, exactly as a transport failure does.
ErrorReplyLikeTransportFailure ==
    Resolved /\ IsErrorReply(last.reply)
        => /\ liveMetrics[last.view] = last.before
           /\ Fetched[last.reply] = Fetched[TransportFailure]

(***************************************************************************)
(* The gateway clients: invokeClimateAgent (services/climateAgentService)  *)
(* and callAgent (FloatingChat).  A result is how the promise settles and, *)
(* when it is fulfilled, the status, text and data of the value.           *)
(***************************************************************************)
\* The fixed text of callAgent's catch branch.
ConnectError == Str(<<"cross", " ", "E", "r", "r", "o", "r">>)
NoResponse == Str(<<"N", "o", " ", "r", "e", "s", "p", "o", "n", "s", "e">>)
WarnPrefix == <<"warn", " ">>

\* `${value}` in a template literal.
Interpolate(v) ==
    IF v.t = "string" THEN v.s ELSE <<"u", "n", "d", "e", "f", "i", "n", "e", "d">>

Rejected == [settled |-> "rejected", status |-> "absent", text |-> Absent, data |-> Absent]
Returned(st, text, data) ==
    [settled |-> "fulfilled", status |-> st, text |-> text, data |-> data]

invokeClimateAgent(net) ==
    IF net.kind = "transport" THEN Rejected           \* fetch rejects; the catch rethrows
    ELSE IF ~net.ok THEN Rejected                     \* throw new Error(...); rethrown
    ELSE IF net.kind = "unparseable" THEN Rejected    \* response.json() rejects; rethrown
    ELSE IF net.json.t # "object" THEN Returned("absent", Absent, Absent)
    ELSE Returned(net.json.status, net.json.response, net.json.data)

\* callAgent with a catch block that rethrows.
callAgentRethrow(net) ==
    IF net.kind # "json" \/ net.json.t # "object"
    THEN Rejected
    ELSE IF net.json.status = "error"
    THEN Returned("absent", Str(WarnPrefix \o Interpolate(net.json.message)), Absent)
    ELSE Returned("absent",
                  IF JsTruthy(net.json.response) THEN net.json.response ELSE NoResponse,
                  net.json.data)

callAgent(net) ==
    IF net.kind # "json" \/ net.json.t # "object"
    THEN Returned("absent", ConnectError, Absent)
    ELSE IF net.json.status = "error"
    THEN Returned("absent", Str(WarnPrefix \o Interpolate(net.json.message)), Absent)
    ELSE Returned("absent",
                  IF JsTruthy(net.json.response) THEN net.json.response ELSE NoResponse,
                  net.json.data)

\* callRealAgent of ClimateAgentChat: callAgent with texts of its own.
callRealAgent(net) ==
    IF net.kind # "json" \/ net.json.t # "object"
    THEN Returned("absent", Str(<<"cross", " Error connecting to agent. Check if runtime is running.">>),
                  Absent)
    ELSE IF net.json.status = "error"
    THEN Returned("absent",
                  Str(WarnPrefix \o <<"Agent error: ">> \o Interpolate(net.json.message)), Absent)
    ELSE Returned("absent",
                  IF JsTruthy(net.json.response) THEN net.json.response
                  ELSE Str(<<"No response from agent">>),
                  Absent)

GwClients == {"invokeClimateAgent", "callAgent"}

\* The prompts of FloatingChat's quick actions.
GwPrompts ==
    {"Show me current energy status", "Show me cost savings", "Show me carbon impact",
     "Show me AWS spot windows", "Show me optimization opportunities",
     "Show me quick metrics"}

BadGateway == [kind |-> "unparseable", ok |-> FALSE, json |-> JsonNull]

GwNets ==
    Replies \cup {SuccessNoText, ErrorNoMessage, ServerError, BadGateway,
                  Body(FALSE, JsonObject("absent", Absent, Absent, Absent))}

GwInit ==
    /\ gwClient = "none" /\ gwPrompt = "none" /\ gwNet = TransportFailure
    /\ gwResult = Rejected /\ gwPc = "idle"
    /\ PollIdle /\ ExIdle /\ CacheIdle /\ PanelIdle /\ ChatIdle

Invoke(client, prompt, net) ==
    /\ gwPc = "idle"
    /\ gwClient' = client
    /\ gwPrompt' = prompt
    /\ gwNet' = net
    /\ gwResult' = IF client = "callAgent" THEN callAgent(net) ELSE invokeClimateAgent(net)
    /\ gwPc' = "done"
    /\ UNCHANGED <<pollVars, exVars, cacheVars, panelVars, chatVars>>

GwNext == \E client \in GwClients, prompt \in GwPrompts, net \in GwNets : Invoke(client, prompt, net)

SpecGateway == GwInit /\ [][GwNext]_vars

\* The three failures of the gateway contract.
GatewayFailure(net) == net.kind = "transport" \/ ~net.ok \/ IsErrorReply(net)

\* C8: invoke(prompt) never throws or rejects, and on network failure, on a non-2xx
\* status and on a reply with status "error" alike it returns a result whose status
\* is "error" and whose text is a non-empty explanation.
GatewayErrorContract ==
    gwPc = "done" =>
        /\ gwResult.settled = "fulfilled"
        /\ GatewayFailure(gwNet) =>
            /\ gwResult.status = "error"
            /\ gwResult.text.t = "string" /\ gwResult.text.s # <<>>

(***************************************************************************)
(* The chat components FloatingChat and IntegratedChat: handleSend with    *)
(* its await of callAgent, the input field, and FloatingChat's modal and   *)
(* unread badge.  IntegratedChat's callAgent returns the text that         *)
(* FloatingChat's returns in its text field.                               *)
(***************************************************************************)
Chats == {"FloatingChat", "IntegratedChat"}

\* What the input field holds: nothing, blanks, a quick-action prompt with a card and
\* one without.
InputTexts == {"", "   ", "Show me cost savings", "Show me optimization opportunities"}

\* input.trim() on the texts of the model.
Trim(text) == IF text = "   " THEN "" ELSE text

\* generateUIResponse(query, data) on the prompts of the model: the card it returns, by
\* the first keyword the lower-cased query includes ("null": none does).  ClimateAgentChat
\* renders its card when shouldRenderUI finds a keyword, which on these prompts is
\* the same case.
generateUIResponse(query) ==
    IF query = "Show me cost savings" THEN "CostSavingsCard" ELSE "null"

\* What the network does to a prompt sent from a chat.
ChatNets == {TransportFailure, SuccessFull, SuccessNoText, ErrorReply}

\* The chat views with the third chat component, ClimateAgentChat.
AllChats == Chats \cup {"ClimateAgentChat"}

\* The message ClimateAgentChat starts with; its id is the constant '1', which no
\* Date.now() of the model equals.
Greeting ==
    [id |-> 0 - 1, sender |-> "agent", text |-> Str(<<"Hi! I'm GAIA">>), ui |-> "null",
     send |-> 0, net |-> TransportFailure]

\* The state after the first render of one of the views.
ChatStart(views) ==
    /\ chatView \in views
    /\ messages = IF chatView = "ClimateAgentChat" THEN <<Greeting>> ELSE <<>>
    /\ input = ""
    /\ isTyping = FALSE
    /\ isOpen = (chatView # "FloatingChat")
    /\ unreadCount = 0
    /\ outstanding = {}
    /\ sent = 0
    /\ clockMs = 0
    /\ PollIdle /\ ExIdle /\ GwIdle /\ CacheIdle /\ PanelIdle

ChatInit == ChatStart(Chats)

ChatAllInit == ChatStart(AllChats)

\* The input field is rendered (FloatingChat renders it inside its modal).
InputShown == chatView # "FloatingChat" \/ isOpen

\* A handleSend without the test of input.trim().
SendUnguarded ==
    /\ InputShown
    /\ sent < MaxSends
    /\ messages' = Append(messages, [id |-> clockMs, sender |-> "user",
                                     text |-> input, ui |-> "null",
                                     send |-> sent + 1, net |-> TransportFailure])
    /\ input' = ""
    /\ isTyping' = TRUE
    /\ outstanding' = outstanding \cup {[n |-> sent + 1, query |-> input, isOpen |-> isOpen]}
    /\ sent' = sent + 1
    /\ UNCHANGED <<chatView, isOpen, unreadCount, clockMs,
                   pollVars, exVars, gwVars, cacheVars, panelVars>>

\* onChange of the input field, or handleQuickAction.
SetInput(text) ==
    /\ InputShown
    /\ input' = text
    /\ UNCHANGED <<chatView, messages, isTyping, isOpen, unreadCount, outstanding, sent, clockMs,
                   pollVars, exVars, gwVars, cacheVars, panelVars>>

\* handleSend up to its await: a no-op on a blank input (the Enter key calls it even
\* when the send button is disabled).
Send ==
    /\ InputShown
    /\ IF Trim(input) = ""
       THEN UNCHANGED <<messages, input, isTyping, outstanding, sent>>
       ELSE /\ sent < MaxSends
            /\ messages' = Append(messages, [id |-> clockMs, sender |-> "user",
                                             text |-> input, ui |-> "null",
                                             send |-> sent + 1, net |-> TransportFailure])
            /\ input' = ""
            /\ isTyping' = TRUE
            /\ outstanding' = outstanding \cup
                                {[n |-> sent + 1, query |-> input, isOpen |-> isOpen]}
            /\ sent' = sent + 1
    /\ UNCHANGED <<chatView, isOpen, unreadCount, clockMs,
                   pollVars, exVars, gwVars, cacheVars, panelVars>>

\* callAgent settles and the handleSend that awaited it goes on: when the promise is
\* rejected the rest of handleSend does not run.
Settle(s, net) ==
    LET result == IF chatView = "ClimateAgentChat" THEN callRealAgent(net) ELSE callAgent(net)
    IN  /\ s \in outstanding
        /\ outstanding' = outstanding \ {s}
        /\ IF result.settled = "fulfilled"
           THEN /\ isTyping' = FALSE
                /\ messages' = Append(messages,
                      [id |-> clockMs + 1, sender |-> "agent", text |-> result.text,
                       ui |-> IF chatView = "IntegratedChat"
                              THEN "null" ELSE generateUIResponse(s.query),
                       send |-> s.n, net |-> net])
                /\ unreadCount' = IF chatView = "FloatingChat" /\ ~s.isOpen
                                  THEN unreadCount + 1 ELSE unreadCount
           ELSE UNCHANGED <<isTyping, messages, unreadCount>>
        /\ UNCHANGED <<chatView, input, isOpen, sent, clockMs,
                       pollVars, exVars, gwVars, cacheVars, panelVars>>

\* handleOpen, from the floating button.
Open ==
    /\ chatView = "FloatingChat" /\ ~isOpen
    /\ isOpen' = TRUE
    /\ unreadCount' = 0
    /\ UNCHANGED <<chatView, messages, input, isTyping, outstanding, sent, clockMs,
                   pollVars, exVars, gwVars, cacheVars, panelVars>>

\* The modal's onClose and its close button.
Close ==
    /\ chatView = "FloatingChat" /\ isOpen
    /\ isOpen' = FALSE
    /\ UNCHANGED <<chatView, messages, input, isTyping, unreadCount, outstanding, sent, clockMs,
                   pollVars, exVars, gwVars, cacheVars, panelVars>>

\* A millisecond passes.
ClockTick ==
    /\ clockMs < MaxClock
    /\ clockMs' = clockMs + 1
    /\ UNCHANGED <<chatView, messages, input, isTyping, isOpen, unreadCount, outstanding, sent,
                   pollVars, exVars, gwVars, cacheVars, panelVars>>

Settles == \E s \in outstanding, net \in ChatNets : Settle(s, net)

\* The call of the n-th send settles.
SettleOf(n) == \E s \in outstanding, net \in ChatNets : s.n = n /\ Settle(s, net)

ChatNext ==
    \/ \E text \in InputTexts : SetInput(text)
    \/ Send
    \/ Settles
    \/ Open
    \/ Close

\* The chat within one millisecond: message ids aside, nothing reads the clock.
SpecChat == ChatInit /\ [][ChatNext]_vars

\* The chat with time passing between its events.
SpecChatTimed == ChatInit /\ [][ChatNext \/ ClockTick]_vars

\* The three chat components.
SpecChatAll == ChatAllInit /\ [][ChatNext]_vars

\* The browser settles every fetch, with a response or with an error.
SpecChatLive == SpecChat /\ \A n \in 1..MaxSends : WF_vars(SettleOf(n))

(***************************************************************************)
(* The server-side response cache, as the pipeline's contract describes    *)
(* it: keyed by the prompt, an entry {payload, timestamp} is valid while   *)
(* now - timestamp < TTL, is created on a miss after a successful          *)
(* reasoning call, and the oldest entry is evicted when the cache is full. *)
(* The reasoning backend answers each call anew: the payload of the n-th   *)
(* call is n.                                                              *)
(***************************************************************************)
TTL == 5

Prompts == 1..(CacheCapacity + 1)

Payload(n) == [text |-> n, data |-> n]

\* What the caller receives.
SuccessBody(payload) == [status |-> "success", response |-> payload.text, data |-> payload.data]
ErrorBody == [status |-> "error", response |-> 0, data |-> 0]

EntriesOf(c, p) == {e \in c : e.prompt = p}

\* The validity test with the comparison turned around.
CacheHitInverted(c, p, t) == \E e \in EntriesOf(c, p) : t - e.timestamp > TTL

\* The validity test that still accepts an entry whose age is exactly TTL.
CacheHitInclusive(c, p, t) == \E e \in EntriesOf(c, p) : t - e.timestamp <= TTL

\* A valid entry for p exists at time t.
CacheHit(c, p, t) == \E e \in EntriesOf(c, p) : t - e.timestamp < TTL

CachedPayload(c, p) == (CHOOSE e \in EntriesOf(c, p) : TRUE).payload

\* The eviction choice turned around: the entries with the newest timestamp.
Newest(c) == {e \in c : \A f \in c : e.timestamp >= f.timestamp}

\* The entries that may be evicted from a full cache: those with the oldest timestamp.
Oldest(c) == {e \in c : \A f \in c : e.timestamp <= f.timestamp}

NoEntry == [ts |-> 0 - 1, payload |-> Payload(0)]

CacheInit ==
    /\ cache = {}
    /\ now = 0
    /\ calls = 0
    /\ created = [p \in Prompts |-> NoEntry]
    /\ lastReply = [kind |-> "none", prompt |-> 0, time |-> 0, body |-> ErrorBody, hit |-> FALSE,
                    prior |-> NoEntry, priorCached |-> FALSE]
    /\ pending = {}
    /\ PollIdle /\ ExIdle /\ GwIdle /\ PanelIdle /\ ChatIdle

Served(p, body, hit) ==
    lastReply' = [kind |-> "request", prompt |-> p, time |-> now, body |-> body, hit |-> hit,
                  prior |-> created[p],
                  priorCached |-> \E e \in EntriesOf(cache, p) : e.timestamp = created[p].ts]

\* A request for p answered from the cache.
RequestHit(p) ==
    /\ CacheHit(cache, p, now)
    /\ Served(p, SuccessBody(CachedPayload(cache, p)), TRUE)
    /\ UNCHANGED <<cache, now, calls, created, pending, pollVars, exVars, gwVars, panelVars, chatVars>>

\* Stores the result of call n for p at the present time, evicting an oldest entry
\* when the cache is full.
Store(p, n) ==
    /\ LET rest == cache \ EntriesOf(cache, p)
           entry == [prompt |-> p, payload |-> Payload(n), timestamp |-> now]
       IN  IF Cardinality(rest) >= CacheCapacity
           THEN \E victim \in Oldest(rest) : cache' = (rest \ {victim}) \cup {entry}
           ELSE cache' = rest \cup {entry}
    /\ created' = [created EXCEPT ![p] = [ts |-> now, payload |-> Payload(n)]]

\* A request for p that misses; the reasoning call succeeds and its reply is stored.
RequestMiss(p) ==
    /\ calls < MaxRequests
    /\ ~CacheHit(cache, p, now)
    /\ Store(p, calls + 1)
    /\ calls' = calls + 1
    /\ Served(p, SuccessBody(Payload(calls + 1)), FALSE)
    /\ UNCHANGED <<now, pending, pollVars, exVars, gwVars, panelVars, chatVars>>

\* A request for p that misses; the reasoning call fails and nothing is stored.
RequestFail(p) ==
    /\ calls < MaxRequests
    /\ ~CacheHit(cache, p, now)
    /\ calls' = calls + 1
    /\ Served(p, ErrorBody, FALSE)
    /\ UNCHANGED <<cache, now, created, pending, pollVars, exVars, gwVars, panelVars, chatVars>>

\* The reasoning call is begun with no test of the cache.
BeginAlways(p) ==
    /\ calls < MaxRequests
    /\ Cardinality(pending) < MaxPending
    /\ calls' = calls + 1
    /\ pending' = pending \cup {[prompt |-> p, n |-> calls + 1, time |-> now, prior |-> created[p],
                                 priorCached |-> \E e \in EntriesOf(cache, p) :
                                                     e.timestamp = created[p].ts]}
    /\ lastReply' = [lastReply EXCEPT !.kind = "begin", !.prompt = p, !.time = now]
    /\ UNCHANGED <<cache, now, created, pollVars, exVars, gwVars, panelVars, chatVars>>

\* A request for p misses and its reasoning call begins; the server goes on serving
\* other requests while the call is computed.
BeginMiss(p) ==
    /\ calls < MaxRequests
    /\ Cardinality(pending) < MaxPending
    /\ ~CacheHit(cache, p, now)
    /\ calls' = calls + 1
    /\ pending' = pending \cup {[prompt |-> p, n |-> calls + 1, time |-> now, prior |-> created[p],
                                 priorCached |-> \E e \in EntriesOf(cache, p) :
                                                     e.timestamp = created[p].ts]}
    /\ lastReply' = [lastReply EXCEPT !.kind = "begin", !.prompt = p, !.time = now]
    /\ UNCHANGED <<cache, now, created, pollVars, exVars, gwVars, panelVars, chatVars>>

\* What the caller of a call in progress receives when it ends.
ServedLate(r, body) ==
    lastReply' = [kind |-> "request", prompt |-> r.prompt, time |-> r.time, body |-> body,
                  hit |-> FALSE, prior |-> r.prior, priorCached |-> r.priorCached]

\* A reasoning call in progress succeeds: its reply is stored and returned.
FinishMiss(r) ==
    /\ r \in pending
    /\ pending' = pending \ {r}
    /\ Store(r.prompt, r.n)
    /\ ServedLate(r, SuccessBody(Payload(r.n)))
    /\ UNCHANGED <<now, calls, pollVars, exVars, gwVars, panelVars, chatVars>>

\* A reasoning call in progress fails: nothing is stored.
FinishFail(r) ==
    /\ r \in pending
    /\ pending' = pending \ {r}
    /\ ServedLate(r, ErrorBody)
    /\ UNCHANGED <<cache, now, calls, created, pollVars, exVars, gwVars, panelVars, chatVars>>

AdvanceTime ==
    /\ now < MaxTime
    /\ now' = now + 1
    /\ lastReply' = [lastReply EXCEPT !.kind = "time"]
    /\ UNCHANGED <<cache, calls, created, pending, pollVars, exVars, gwVars, panelVars, chatVars>>

CacheNext ==
    \/ AdvanceTime
    \/ \E p \in Prompts : RequestHit(p) \/ RequestMiss(p) \/ RequestFail(p)

SpecCache == CacheInit /\ [][CacheNext]_vars

\* The prompt of fetchLiveMetrics, which App, MetricsHero and EnergyChart all send
\* at mount and on every tick.
MetricsPrompt == 1

\* The server as the metrics pollers drive it: requests for the one prompt, which
\* arrive while earlier ones are still being computed.
PollersNext ==
    \/ AdvanceTime
    \/ RequestHit(MetricsPrompt)
    \/ BeginMiss(MetricsPrompt)
    \/ \E r \in pending : FinishMiss(r) \/ FinishFail(r)

SpecPollers == CacheInit /\ [][PollersNext]_vars

\* The request just served is a second invocation of its prompt, made within the
\* TTL window of the entry an earlier invocation created.
SecondWithinTTL ==
    /\ lastReply.kind = "request"
    /\ lastReply.prior.ts >= 0
    /\ lastReply.time - lastReply.prior.ts < TTL

ExpiredRequest ==
    /\ lastReply.kind = "request"
    /\ lastReply.prior.ts >= 0
    /\ lastReply.time - lastReply.prior.ts >= TTL

\* C11: a cached reply for a prompt is served only while now - timestamp < TTL; a
\* request made when the entry's age is TTL or more is not answered from that entry
\* and causes a fresh reasoning call.
CacheTTL ==
    /\ lastReply.kind = "request" /\ lastReply.hit
        => \E e \in EntriesOf(cache, lastReply.prompt) :
              /\ lastReply.time - e.timestamp < TTL
              /\ lastReply.body = SuccessBody(e.payload)
    /\ ExpiredRequest
        => /\ ~lastReply.hit
           /\ lastReply.body # SuccessBody(lastReply.prior.payload)
           /\ \/ lastReply.body = ErrorBody
              \/ \E n \in (lastReply.prior.payload.text + 1)..calls :
                    lastReply.body = SuccessBody(Payload(n))

\* A request at the first instant the entry is no longer valid (age exactly TTL), the
\* entry still being in the cache: it is answered by a new reasoning call.
CacheTTLWitness ==
    /\ ExpiredRequest /\ lastReply.priorCached
    /\ lastReply.time - lastReply.prior.ts = TTL
    /\ ~lastReply.hit
    /\ lastReply.body = SuccessBody(Payload(calls))

\* A step that stores an entry for a prompt the cache holds no entry of, the cache
\* being full: exactly one entry leaves, and it is one with the oldest timestamp.
EvictsOldestOnly ==
    \A p \in Prompts :
        /\ cache' # cache
        /\ EntriesOf(cache, p) = {}
        /\ EntriesOf(cache', p) # {}
        /\ Cardinality(cache) = CacheCapacity
        => /\ Cardinality(cache \ cache') = 1
           /\ \A e \in cache \ cache' : \A f \in cache : e.timestamp <= f.timestamp
           /\ Cardinality(cache' \ cache) = 1

\* A step that stores an entry otherwise (room left, or the prompt's own stale entry
\* is replaced) removes no entry of another prompt.
InsertKeepsOthers ==
    \A p \in Prompts :
        /\ cache' # cache
        /\ EntriesOf(cache', p) # EntriesOf(cache, p)
        /\ (EntriesOf(cache, p) # {} \/ Cardinality(cache) < CacheCapacity)
        => cache \ cache' = EntriesOf(cache, p)

\* C12: in every reachable state the response cache holds at most CacheCapacity
\* entries (one per prompt), and inserting a new entry into a full cache evicts the
\* entry with the oldest timestamp and no other.
CacheCapacityBound ==
    /\ [](Cardinality(cache) <= CacheCapacity)
    /\ [](\A p \in Prompts : Cardinality(EntriesOf(cache, p)) <= 1)
    /\ [][EvictsOldestOnly /\ InsertKeepsOthers]_vars

\* The cache is full after an insertion that evicted the oldest entry: a prompt whose
\* entry was created no later than any entry now cached has no entry any more.
CacheCapacityWitness ==
    /\ lastReply.kind = "request" /\ ~lastReply.hit /\ lastReply.body # ErrorBody
    /\ Cardinality(cache) = CacheCapacity
    /\ \E q \in Prompts \ {lastReply.prompt} :
          /\ created[q].ts >= 0
          /\ EntriesOf(cache, q) = {}
          /\ \A e \in cache : e.timestamp >= created[q].ts
          /\ \E e \in cache : e.timestamp > created[q].ts

\* C13 as stated, for requests that arrive while the first one is still being
\* computed: when the reasoning backend is invoked for a prompt, no other invocation
\* for that prompt begun less than TTL earlier is in progress.
OneInvocationPerWindow ==
    lastReply.kind = "begin"
        => \A r \in pending :
              r.prompt = lastReply.prompt /\ r.n # calls => lastReply.time - r.time >= TTL

\* C13, amended: a request for a prompt that arrives while the cache holds an
\* unexpired entry for it does not invoke the reasoning backend; every invocation
\* begins when no valid entry of the prompt is cached.
NoInvocationWhileValid ==
    [][calls' # calls
        => ~\E e \in EntriesOf(cache, lastReply'.prompt) : now - e.timestamp < TTL]_vars

\* A poll answered from the cache later in the window of the entry that the first of
\* two overlapping reasoning calls stored, the second call still being computed.
NoInvocationWitness ==
    /\ lastReply.kind = "request" /\ lastReply.hit
    /\ lastReply.time > lastReply.prior.ts
    /\ calls = 2
    /\ \E r \in pending : r.prompt = lastReply.prompt /\ r.time <= lastReply.prior.ts

\* C14: once a polling view (App, MetricsHero, EnergyChart, SustainabilityScore,
\* AWSSpotOptimization) is torn down its interval timer is cleared and that poller
\* issues no new fetch in any later state.
Cancellation ==
    /\ [](\A v \in Views : status[v] = "unmounted" => ~interval[v])
    /\ [](\A v \in Panels : pstatus[v] = "unmounted" => ~pinterval[v])
    /\ [][\A v \in Views : status[v] = "unmounted"
            => status'[v] = "unmounted" /\ nextSeq'[v] = nextSeq[v]
               /\ inflight'[v] \subseteq inflight[v]]_vars
    /\ [][\A v \in Panels : pstatus[v] = "unmounted"
            => pstatus'[v] = "unmounted" /\ pnextSeq'[v] = pnextSeq[v]
               /\ pinflight'[v] \subseteq pinflight[v]]_vars

\* A panel torn down while its first fetch was outstanding: the fetch has settled since,
\* the timer is cleared and no second fetch was issued, though the bounds allow one.
CancellationWitness ==
    \E v \in Panels :
        /\ pstatus[v] = "unmounted" /\ ~pinterval[v]
        /\ plast.kind = "resolve" /\ plast.view = v
        /\ pnextSeq[v] = 1 /\ pinflight[v] = {}
        /\ PanelIssued < MaxPanelFetches

\* C15: a poller fetches once at mount and once on every interval tick, and no fetch
\* outcome (success, transport failure, backend error, exception while processing the
\* reply) disables the timer: while the view stays mounted its timer is armed and a
\* tick issues a new fetch whatever the earlier fetches did (up to the bounds of the
\* model on the number of fetches).
NoTerminalState ==
    /\ \A v \in Views :
          status[v] = "mounted"
              => /\ interval[v]
                 /\ nextSeq[v] >= 1
                 /\ nextSeq[v] < MaxFetches => ENABLED Tick(v)
    /\ \A v \in Panels :
          pstatus[v] = "mounted"
              => /\ pinterval[v]
                 /\ pnextSeq[v] >= 1
                 /\ pnextSeq[v] < MaxFetches /\ PanelIssued < MaxPanelFetches
                        => ENABLED PanelTick(v)

\* SustainabilityScore has just issued its second fetch on a tick, after its first one
\* applied a score and then ended in the catch block.
NoTerminalStateWitness ==
    /\ plast.kind = "tick" /\ plast.view = "SustainabilityScore" /\ plast.seq = 2
    /\ pinflight["SustainabilityScore"] = {2}
    /\ score.overallScore # Num(0) /\ ~score.isLoading

\* C16: in every reachable state each poller instance has at most one outstanding
\* (issued but not yet resolved) fetch.
AtMostOneInFlight == \A v \in Views : Cardinality(inflight[v]) <= 1

\* C17: a poller replaces its snapshot as one whole object per completed fetch; no
\* reachable state exposes a snapshot in which some fields come from one fetch result
\* and other fields from a different fetch result.
WholesaleReplacement ==
    \A f, g \in SpotFields :
        spotOrigin[f] # 0 /\ spotOrigin[g] # 0 => spotOrigin[f] = spotOrigin[g]

\* The state of the panel v.
PanelState(v) ==
    CASE v = "EnergyChart" -> <<energy>>
      [] v = "SustainabilityScore" -> <<score>>
      [] v = "AWSSpotOptimization" -> <<spot, spotOrigin>>

\* C18: the completion of a fetch issued by one poller instance (App, MetricsHero,
\* EnergyChart, SustainabilityScore, AWSSpotOptimization) changes only that
\* instance's own state and leaves the snapshot of every other instance unchanged.
IndependentPollers ==
    /\ [][\A v \in Views :
            inflight'[v] # inflight[v] /\ inflight'[v] \subseteq inflight[v]
                => /\ \A w \in Views \ {v} :
                         /\ liveMetrics'[w] = liveMetrics[w]
                         /\ inflight'[w] = inflight[w]
                         /\ status'[w] = status[w] /\ interval'[w] = interval[w]
                   /\ v # "MetricsHero" => isLoading' = isLoading
                   /\ UNCHANGED <<energy, score, spot, spotOrigin, pinflight, pstatus,
                                  pinterval>>]_vars
    /\ [][\A v \in Panels :
            pinflight'[v] # pinflight[v] /\ pinflight'[v] \subseteq pinflight[v]
                => /\ \A w \in Panels \ {v} :
                         /\ PanelState(w)' = PanelState(w)
                         /\ pinflight'[w] = pinflight[w]
                         /\ pstatus'[w] = pstatus[w] /\ pinterval'[w] = pinterval[w]
                   /\ UNCHANGED <<liveMetrics, isLoading, inflight, status, interval>>]_vars

\* A fetch of one view has just completed while the other view of App.tsx holds a
\* snapshot of its own, taken from an earlier fetch and different from the new one.
IndependentPollersWitness ==
    /\ last.kind = "resolve"
    /\ \E w \in Views \ {last.view} :
          /\ applied[w].seq >= 1
          /\ liveMetrics[w] # InitialMetrics(w)
          /\ liveMetrics[w] # liveMetrics[last.view]
          /\ liveMetrics[last.view] # last.before

\* C19: in every reachable snapshot the renewable energy share is within [0, 100] and
\* the sustainability score is an integer within [0, 100], whatever numbers appear in
\* the response text.
PercentRanges ==
    /\ IsNumber(energy.liveData.renewablePct)
    /\ ~AtLeast(energy.liveData.renewablePct, 101)
    /\ IsNumber(energy.liveData.sustainabilityScore)
    /\ energy.liveData.sustainabilityScore.e = 0
    /\ ~AtLeast(energy.liveData.sustainabilityScore, 101)

\* The agent messages appended for the n-th send.
AgentMessages(n) ==
    {i \in DOMAIN messages : messages[i].sender = "agent" /\ messages[i].send = n}

\* The text the chat shows for what the network did, in the three cases of C20.
ChatTextFor(m) ==
    /\ m.net.kind = "transport" => m.text = ConnectError
    /\ IsErrorReply(m.net) /\ m.net.json.message.t = "string"
          => m.text = Str(WarnPrefix \o m.net.json.message.s)
    /\ IsSuccess(m.net) /\ m.net.json.response.t = "string" /\ m.net.json.response.s # <<>>
          => m.text = m.net.json.response

Completed(issued, waiting) == issued > Cardinality(waiting)

\* C21: in each polling view that has an isLoading flag (MetricsHero,
\* SustainabilityScore, AWSSpotOptimization) the flag is true until the view has
\* issued a fetch, is false in every state after any fetch the view issued has
\* completed, whatever its outcome, and never returns to true.
LoadingFlag ==
    /\ [](/\ nextSeq["MetricsHero"] = 0 => isLoading
          /\ pnextSeq["SustainabilityScore"] = 0 => score.isLoading
          /\ pnextSeq["AWSSpotOptimization"] = 0 => spot.isLoading)
    /\ [](/\ Completed(nextSeq["MetricsHero"], inflight["MetricsHero"]) => ~isLoading
          /\ Completed(pnextSeq["SustainabilityScore"], pinflight["SustainabilityScore"])
                => ~score.isLoading
          /\ Completed(pnextSeq["AWSSpotOptimization"], pinflight["AWSSpotOptimization"])
                => ~spot.isLoading)
    /\ [][/\ isLoading' => isLoading
          /\ score'.isLoading => score.isLoading
          /\ spot'.isLoading => spot.isLoading]_vars

\* A fetch of AWSSpotOptimization completes in this step.
SpotResolves ==
    /\ pinflight'["AWSSpotOptimization"] # pinflight["AWSSpotOptimization"]
    /\ pnextSeq'["AWSSpotOptimization"] = pnextSeq["AWSSpotOptimization"]

\* The windows on display came from a successful fetch.
SpotWindowsFetched == spot.spotWindows # <<>> /\ spot.spotWindows # FallbackWindows

\* C22: in AWSSpotOptimization a failed fetch that follows a successful one leaves
\* the displayed windows and metrics as they were: the last successfully fetched
\* spotWindows list is kept entirely.
SpotKeepsLastWindows ==
    [][SpotResolves /\ SpotWindowsFetched /\ ~IsSuccess(plast'.reply)
          => spot'.spotWindows = spot.spotWindows /\ spot'.metrics = spot.metrics]_vars

\* The reply is a success with data in which the structured field of f is present.
SpotFieldPresent(reply, f) ==
    /\ reply.kind = "json" /\ reply.json.t = "object"
    /\ reply.json.status = "success" /\ reply.json.data.t = "object"
    /\ SpotField(reply.json.data, f).t = "number"

\* C23: in AWSSpotOptimization a completed fetch sets a metric field to the reply's
\* structured field whenever the reply is a success with data in which that field is
\* present, the value 0 included, and leaves the field as it was in every other
\* case; no other step changes a metric.
SpotMetricsByField ==
    [][\A f \in SpotFields :
          IF SpotResolves /\ SpotFieldPresent(plast'.reply, f)
          THEN spot'.metrics[f] = SpotField(plast'.reply.json.data, f)
          ELSE spot'.metrics[f] = spot.metrics[f]]_vars

\* The eight constants C24 lists.
FallbackConstants ==
    [costSavingsToday |-> Norm(8550, 2), carbonReduced |-> Num(180),
     efficiencyGain |-> Num(12), temperature |-> Num(24), solarIrradiance |-> Num(300),
     energyPrice |-> Num(65), renewablePct |-> Num(55), sustainabilityScore |-> Num(87)]

\* A fetch of App completes in this step.
AppResolves == inflight'["App"] # inflight["App"] /\ nextSeq'["App"] = nextSeq["App"]

\* C24: on transport failure, or any exception while the reply is read,
\* fetchLiveMetrics resolves to the constants 85.50, 180, 12, 24, 300, 65, 55, 87,
\* which are App's initial snapshot: in App a fetch that failed so puts the exposed
\* snapshot back to its initial value, whatever was fetched before.
FallbackIsInitial ==
    [][AppResolves /\ TryThrows(last'.reply)
          => /\ last'.settled = "fulfilled"
             /\ liveMetrics'["App"] = FallbackConstants
             /\ liveMetrics'["App"] = InitialMetrics("App")]_vars

\* App showed the metrics of a successful fetch, then a fetch failed in transport and
\* the initial snapshot is back.
FallbackIsInitialWitness ==
    /\ last.kind = "resolve" /\ last.view = "App" /\ last.reply = TransportFailure
    /\ last.beforeSuccess /\ last.before # InitialMetrics("App")
    /\ liveMetrics["App"] = InitialMetrics("App")

\* The input holds nothing or only white space.
BlankInput == input \in {"", "   "}

\* C25: in every chat view handleSend on an input that is empty or only white space
\* does nothing: while the input is blank no step appends a message of the user,
\* starts a call or raises isTyping, so every prompt sent to the endpoint from a
\* chat is non-empty after trimming.
NonEmptyPrompts ==
    /\ [](\A s \in outstanding : s.query \notin {"", "   "})
    /\ [](\A i \in DOMAIN messages :
            messages[i].sender = "user" => messages[i].text \notin {"", "   "})
    /\ [][BlankInput
            => /\ sent' = sent
               /\ outstanding' \subseteq outstanding
               /\ \A i \in DOMAIN messages' \ DOMAIN messages : messages'[i].sender = "agent"
               /\ isTyping' => isTyping]_vars

\* ClimateAgentChat has sent one prompt, holds blanks in its input since, and the one
\* call is all that went out.
NonEmptyPromptsWitness ==
    /\ chatView = "ClimateAgentChat" /\ input = "   "
    /\ sent = 1 /\ Cardinality(outstanding) = 1 /\ isTyping
    /\ Len(messages) = 2 /\ messages[2].sender = "user"

\* C26: in FloatingChat and IntegratedChat isTyping is true exactly when at least one
\* agent call is outstanding, also when a second message is sent before the reply to
\* the first has arrived.
TypingIndicator ==
    chatView \in {"FloatingChat", "IntegratedChat"} => (isTyping <=> outstanding # {})

\* An agent reply is appended in this step.
ReplyAppended ==
    Len(messages') = Len(messages) + 1 /\ messages'[Len(messages')].sender = "agent"

\* C27: in FloatingChat unreadCount goes up by one exactly when an agent reply is
\* appended while the modal is closed at that moment (also when it was closed after
\* the send), stays as it is when the modal is open at that moment, and is reset to
\* 0 by opening the chat.
UnreadBadge ==
    [][chatView = "FloatingChat"
          => IF ReplyAppended
             THEN unreadCount' = IF isOpen THEN unreadCount ELSE unreadCount + 1
             ELSE IF ~isOpen /\ isOpen'
             THEN unreadCount' = 0
             ELSE unreadCount' = unreadCount]_vars

\* C28: in every reachable state of a chat view no two messages of the list have
\* the same id, for any interleaving of sends and reply arrivals.
UniqueMessageIds ==
    \A i, j \in DOMAIN messages : i # j => messages[i].id # messages[j].id

\* The band C29 gives a score.
Band(sc) ==
    IF sc.m >= 80 * Pow10(sc.e) THEN "Excellent Performance"
    ELSE IF sc.m >= 60 * Pow10(sc.e) THEN "Good Performance"
    ELSE IF sc.m >= 40 * Pow10(sc.e) THEN "Needs Improvement"
    ELSE "Action Required"

\* A fetch of SustainabilityScore completes in this step.
ScoreResolves ==
    /\ pinflight'["SustainabilityScore"] # pinflight["SustainabilityScore"]
    /\ pnextSeq'["SustainabilityScore"] = pnextSeq["SustainabilityScore"]

\* The reply is a success whose data carries a sustainability_score.
ScorePresent(reply) ==
    /\ reply.kind = "json" /\ reply.json.t = "object"
    /\ reply.json.status = "success" /\ reply.json.data.t = "object"
    /\ reply.json.data.sustainability_score.t = "number"

\* C29: in SustainabilityScore, once a score has been applied the performance text
\* is the band of the current overallScore in every reachable state; overallScore
\* and the performance text change only together, and only through a reply with
\* status "success" and a present sustainability_score.
ScoreBanding ==
    /\ [](IF score.performanceText = "Loading..."
          THEN score.overallScore = Num(0)
          ELSE score.performanceText = Band(score.overallScore))
    /\ [][score'.overallScore # score.overallScore
              \/ score'.performanceText # score.performanceText
            => /\ ScoreResolves /\ ScorePresent(plast'.reply)
               /\ score'.overallScore = plast'.reply.json.data.sustainability_score
               /\ score'.performanceText = Band(score'.overallScore)]_vars

\* Two fetches were issued and the first was the last to complete, with the score 40:
\* score, text and recommendations are those of the reply applied last.
ScoreBandingWitness ==
    /\ plast.kind = "resolve" /\ plast.view = "SustainabilityScore" /\ plast.seq = 1
    /\ pnextSeq["SustainabilityScore"] = 2 /\ pinflight["SustainabilityScore"] = {}
    /\ plast.reply = ScoreWithText
    /\ score.overallScore = Num(40) /\ score.performanceText = "Needs Improvement"
    /\ score.recommendations = DefaultRecs(Num(40))

\* The pattern /word.*?(\d+\.?\d*)/i of a category, word given by its letters in
\* both cases; .*? takes as few characters as the rest of the match allows.
CategoryPattern(letters) ==
    [elems |-> [k \in 1..Len(letters) |-> Ci(letters[k][1], letters[k][2])]
                 \o <<[cls |-> Dot, q |-> "lazy"],
                      Plus(Of(Digits)), Opt(Of({"."})), Star(Of(Digits))>>,
     capFrom |-> Len(letters) + 2, capTo |-> Len(letters) + 4]

CategoryPatterns ==
    << CategoryPattern(<< <<"e", "E">>, <<"n", "N">>, <<"e", "E">>, <<"r", "R">>,
                          <<"g", "G">>, <<"y", "Y">> >>),
       CategoryPattern(<< <<"c", "C">>, <<"a", "A">>, <<"r", "R">>, <<"b", "B">>,
                          <<"o", "O">>, <<"n", "N">> >>),
       CategoryPattern(<< <<"r", "R">>, <<"e", "E">>, <<"s", "S">>, <<"o", "O">>,
                          <<"u", "U">>, <<"r", "R">>, <<"c", "C">>, <<"e", "E">> >>),
       CategoryPattern(<< <<"w", "W">>, <<"a", "A">>, <<"s", "S">>, <<"t", "T">>,
                          <<"e", "E">> >>) >>

CategoryDefaults == <<94, 88, 82, 85>>

\* The reply is a success with data whose response text mentions a category score.
MentionsCategory(reply) ==
    /\ reply.kind = "json" /\ reply.json.t = "object"
    /\ reply.json.status = "success" /\ reply.json.data.t = "object"
    /\ reply.json.response.t = "string"
    /\ \E i \in 1..4 : Match(reply.json.response.s, CategoryPatterns[i]).ok

\* The breakdown C30 expects from the response text.
ExpectedCategories(text) ==
    [i \in 1..4 |->
        LET match == Match(text, CategoryPatterns[i])
        IN  [name |-> CategoryNames[i],
             score |-> IF match.ok THEN parseFloat(match.group)
                       ELSE Num(CategoryDefaults[i])]]

\* C30: after a fetch of SustainabilityScore that returns status "success" with data
\* and a response text that mentions at least one category score, the breakdown
\* shows the parsed score of each matched category and the defaults 94, 88, 82, 85
\* for the others; this holds for the fetch of every poll.
CategoryBreakdown ==
    [][ScoreResolves /\ MentionsCategory(plast'.reply)
          => score'.categories = ExpectedCategories(plast'.reply.json.response.s)]_vars

====
